---- MODULE Spec2Model ----
(***************************************************************************)
(* Debounced threshold watchdog of Ysuite:                                 *)
(*   scripts/watchdog_monitor.py          (WatchdogMonitor: CPU, RAM)      *)
(*   scripts/watchdog_monitor_enhanced.py (EnhancedWatchdogMonitor: CPU,   *)
(*                                         RAM, WiFi)                      *)
(* One step of the model is one iteration of run(): the sleep that         *)
(* precedes it, the sample reads, check_and_trigger with every call it     *)
(* makes (trigger_reboot, restart_modem_usb, log_status).                  *)
(* Time is in whole seconds.                                               *)
(***************************************************************************)
EXTENDS Integers, FiniteSets, Sequences, TLC

\* ------------------------------------------------------------ bounds ----
\* wall-clock reading at construction of the monitor
T0 == 100
\* the model follows the monitor for this many seconds
MaxTime == 12
\* longest time between the end of one iteration and the clock read of the next
MaxGap == 2
\* largest debounce duration the general specification configures
MaxDuration == 3
\* most fragments in a log line given to analyze_log_line
MaxWords == 2
\* calls of a logging method followed beyond the cap of its file, and after a
\* read of the file that failed
MaxExtra == 3
\* most lines in a file given to analyze_log_file
MaxLines == 3
\* runs of crash_reporter.py, and reboots, that the model follows
MaxRuns == 3
\* most CPUs multiprocessing.cpu_count() reports
MaxCpus == 2

\* ------------------------------------------------- program constants ----
\* the value of an unset start-time field
None == -1
\* a psutil read that raised instead of returning a percentage
Unavailable == -2
\* time.sleep(5) in trigger_reboot
RebootDelay == 5
\* "Log every 5 seconds max"
LogInterval == 5
\* "Keep only last 1000 events", "last 100 crashes", "last 1000 entries"
LogCap == 1000
CrashCap == 100
PowerCap == 1000
\* thresholds and durations given in __main__
DefaultThreshold == 80
DefaultDuration == 15
DefaultWifiTimeout == 60
\* CrashReporter.max_crash_reports
max_crash_reports == 50
\* "for i in range(3)": glmark2 instances VoltageStressTest.gpu_stress starts
GlmarkInstances == 3

\* the percentages the samplers return in the model: below, at and above the
\* default threshold
Samples == {50, 80, 85}
Readings == Samples \cup {Unavailable}
\* the outcomes of the connectivity probe of check_wifi_connectivity
Probes == {"ping_ok", "ping_fail", "timeout"}
Classes == {"WatchdogMonitor", "EnhancedWatchdogMonitor"}
Metrics == {"cpu", "ram"}

VARIABLES
  cls,                 \* which monitor class was constructed
  cpu_threshold, ram_threshold, duration_threshold, wifi_timeout,
  cpu_high_start, ram_high_start, wifi_down_start, last_log_time,
  now,                 \* current_time of the latest check_and_trigger
  horizon,             \* the clock reading at which the model stops following run()
  pc,                  \* "running", "rebooted" (reboot took the process down),
                       \* "error" (run() re-raised an exception), "stopped"
                       \* (run() returned after KeyboardInterrupt)
  at,                  \* where run() is, in the specification that follows it
                       \* call by call: "sample" (check_and_trigger reading),
                       \* "cpu" / "ram" (in trigger_reboot for that metric,
                       \* before the reboot command), "sleep" (time.sleep(1));
                       \* "loop" where an iteration is one step
  interrupted,         \* a KeyboardInterrupt has been raised in run()
  line,                \* KernelLogAnalyzer: the log line given to analyze_log_line
  variant,             \* the same line with the case of some letters changed
  verdict,             \* what analyze_log_line returned for line
  verdict_variant,     \* what analyze_log_line returned for variant
  store,               \* ysuite.py: the class whose JSON file is followed:
                       \* "YLog", "YCrash" or "YPower"
  file_exists,         \* the JSON file exists
  file_content,        \* the list in the JSON file; an entry is the number of
                       \* the call that appended it
  appended,            \* calls of the logging method so far
  failed_at,           \* the call whose json.load raised, 0 when none did
  last,                \* the latest iteration: samples read, action dispatched
  entry,               \* per metric: clock read of the first sample of the
                       \* current unbroken run of samples > threshold, or None
  fires,               \* per metric: dispatches during that run (capped at 2)
  prev,                \* per metric, the latest run that ended: "none" (no run
                       \* has ended), "fired" (it dispatched the action),
                       \* "quiet" (no dispatch, more than one sample), "point"
  jitter,              \* some iteration so far came more than 1 s after the last
  everHigh,            \* some CPU or RAM sample so far was > threshold
  everLong,            \* some run so far has lasted >= duration_threshold
  logged,              \* per metric, what its block of check_and_trigger
                       \* logged in the latest iteration: "warning" (usage
                       \* exceeded), "critical" (triggering reboot), "recovery"
                       \* (returned to normal) or "none"
  wifi_hist            \* restarts: restart_modem_usb calls during the current
                       \*   unbroken run of failed connectivity checks (capped)
                       \* last_restart: clock read of the latest call, or None
                       \* upSeen: since wifi_down_start was last set, some
                       \*   connectivity check returned True
                       \* upReached: the same, counting only iterations that
                       \*   went on to the WiFi block of check_and_trigger
VARIABLES
  path_exists,         \* KernelLogAnalyzer.analyze_log_file: log_file_path exists
  log_lines,           \* the lines of that file
  stats,               \* the counts analyze_log_file accumulates
  records,             \* the log_error records written, in order
  returned             \* "pending" before the call, then "stats" or "None"
VARIABLES
  kernel_boot_id,      \* /proc/sys/kernel/random/boot_id of the running
                       \* kernel: the n-th boot has the ID n
  current_boot_file,   \* CrashReporter: <<the stored boot ID>>, Absent when
                       \* /var/log/kernel/current_boot does not exist
  crash_files,         \* the names of the crash_report_*.json files of
                       \* crash_dir, each the digits of its time stamp
  wall,                \* the wall clock, in seconds
  runs,                \* runs of crash_reporter.py so far
  boots,               \* reboots so far
  last_run             \* the latest run: what it read, generated and removed
VARIABLES
  kmsg_line,           \* KernelLoggerDaemon: the line read from /dev/kmsg
  msg_data,            \* what parse_kmsg_line returned for it
  level_logged         \* the loguru level log_message used, "none" when it
                       \* logged nothing
VARIABLES
  test,                \* the stress test class that was constructed
  as_script,           \* the file runs as __main__, which installs
                       \* signal_handler for SIGINT
  running,             \* self.running
  gpu_process,         \* self.gpu_process: an index into children, or None
  cpu_processes,       \* self.cpu_processes: indexes into children
  children,            \* the child processes started: what each runs and
                       \* whether it is still alive
  main_at,             \* the main thread: "init", "waiting" (in
                       \* time.sleep(duration)), "stopping" (about to call
                       \* stop_stress), "returned" (stop_stress returned),
                       \* "exited" (the interpreter has exited)
  gpu_at,              \* the thread running gpu_stress: "idle", "popen"
                       \* (about to start a glmark2 instance), "fallback",
                       \* "done"
  memory_at,           \* the thread running memory_stress: "idle", "ready",
                       \* "done"
  sigint               \* SIGINT arrived while the main thread was waiting

config == <<cls, cpu_threshold, ram_threshold, duration_threshold, wifi_timeout>>
fields == <<cpu_high_start, ram_high_start, wifi_down_start, last_log_time>>
history == <<last, entry, fires, prev, jitter, everHigh, everLong>>
observed == <<wifi_hist, logged>>
position == <<at, interrupted>>
analyzer == <<line, variant, verdict, verdict_variant>>
stores == <<store, file_exists, file_content, appended, failed_at>>
report == <<path_exists, log_lines, stats, records, returned>>
crash == <<kernel_boot_id, current_boot_file, crash_files, wall, runs, boots,
           last_run>>
kmsg == <<kmsg_line, msg_data, level_logged>>
stress == <<test, as_script, running, gpu_process, cpu_processes, children,
            main_at, gpu_at, memory_at, sigint>>
beyond == <<report, crash, kmsg, stress>>
elsewhere == <<analyzer, stores, beyond>>
watchdog == <<config, fields, now, horizon, pc, position, history, observed>>
vars == <<watchdog, elsewhere>>

\* ----------------------------------------------------- pure functions ----
\* check_wifi_connectivity: True only when the ping of the gateway succeeded;
\* a probe that fails or times out raises inside the try and yields False
check_wifi_connectivity(probe) ==
  IF probe = "ping_ok" THEN TRUE
  ELSE IF probe = "ping_fail" THEN FALSE
  ELSE FALSE

\* log_status without the throttle: a status line on every call
log_statusEveryCall(current_time) == current_time

\* log_status: the status line is written, and last_log_time moved, only when
\* at least LogInterval seconds have passed
log_status(current_time) ==
  IF current_time - last_log_time >= LogInterval THEN current_time
  ELSE last_log_time

\* CpuCheck with the threshold compared by >= instead of >
CpuCheckInclusive(cpu_usage, current_time) ==
  IF cpu_usage >= cpu_threshold
  THEN IF cpu_high_start = None
       THEN [start |-> current_time, fire |-> FALSE]
       ELSE IF current_time - cpu_high_start >= duration_threshold
            THEN [start |-> cpu_high_start, fire |-> TRUE]
            ELSE [start |-> cpu_high_start, fire |-> FALSE]
  ELSE [start |-> None, fire |-> FALSE]

\* CpuCheck with the duration compared by > instead of >=
CpuCheckLate(cpu_usage, current_time) ==
  IF cpu_usage > cpu_threshold
  THEN IF cpu_high_start = None
       THEN [start |-> current_time, fire |-> FALSE]
       ELSE IF current_time - cpu_high_start > duration_threshold
            THEN [start |-> cpu_high_start, fire |-> TRUE]
            ELSE [start |-> cpu_high_start, fire |-> FALSE]
  ELSE [start |-> None, fire |-> FALSE]

\* CpuCheck without the reset of cpu_high_start in the else branch
CpuCheckNoReset(cpu_usage, current_time) ==
  IF cpu_usage > cpu_threshold
  THEN IF cpu_high_start = None
       THEN [start |-> current_time, fire |-> FALSE]
       ELSE IF current_time - cpu_high_start >= duration_threshold
            THEN [start |-> cpu_high_start, fire |-> TRUE]
            ELSE [start |-> cpu_high_start, fire |-> FALSE]
  ELSE [start |-> cpu_high_start, fire |-> FALSE]

\* CpuCheck with the duration measured on the iteration that sets the timer too
CpuCheckImmediate(cpu_usage, current_time) ==
  IF cpu_usage > cpu_threshold
  THEN LET start == IF cpu_high_start = None THEN current_time
                    ELSE cpu_high_start
       IN IF current_time - start >= duration_threshold
          THEN [start |-> start, fire |-> TRUE]
          ELSE [start |-> start, fire |-> FALSE]
  ELSE [start |-> None, fire |-> FALSE]

\* "Check CPU usage": the new cpu_high_start and whether the reboot is triggered
CpuCheck(cpu_usage, current_time) ==
  IF cpu_usage > cpu_threshold
  THEN IF cpu_high_start = None
       THEN [start |-> current_time, fire |-> FALSE]
       ELSE IF current_time - cpu_high_start >= duration_threshold
            THEN [start |-> cpu_high_start, fire |-> TRUE]
            ELSE [start |-> cpu_high_start, fire |-> FALSE]
  ELSE [start |-> None, fire |-> FALSE]

\* RamCheck reading the CPU timer (the CPU block copied and not fully renamed)
RamCheckShared(ram_usage, current_time) ==
  IF ram_usage > ram_threshold
  THEN IF cpu_high_start = None
       THEN [start |-> current_time, fire |-> FALSE]
       ELSE IF current_time - cpu_high_start >= duration_threshold
            THEN [start |-> cpu_high_start, fire |-> TRUE]
            ELSE [start |-> cpu_high_start, fire |-> FALSE]
  ELSE [start |-> None, fire |-> FALSE]

\* "Check RAM usage"
RamCheck(ram_usage, current_time) ==
  IF ram_usage > ram_threshold
  THEN IF ram_high_start = None
       THEN [start |-> current_time, fire |-> FALSE]
       ELSE IF current_time - ram_high_start >= duration_threshold
            THEN [start |-> ram_high_start, fire |-> TRUE]
            ELSE [start |-> ram_high_start, fire |-> FALSE]
  ELSE [start |-> None, fire |-> FALSE]

\* WifiCheck without the reset of wifi_down_start when WiFi is back
WifiCheckNoReset(wifi_status, current_time) ==
  IF ~wifi_status
  THEN IF wifi_down_start = None
       THEN [start |-> current_time, fire |-> FALSE]
       ELSE IF current_time - wifi_down_start >= wifi_timeout
            THEN [start |-> None, fire |-> TRUE]
            ELSE [start |-> wifi_down_start, fire |-> FALSE]
  ELSE [start |-> wifi_down_start, fire |-> FALSE]

\* WifiCheck without the reset of wifi_down_start after restart_modem_usb
WifiCheckKeepsTimer(wifi_status, current_time) ==
  IF ~wifi_status
  THEN IF wifi_down_start = None
       THEN [start |-> current_time, fire |-> FALSE]
       ELSE IF current_time - wifi_down_start >= wifi_timeout
            THEN [start |-> wifi_down_start, fire |-> TRUE]
            ELSE [start |-> wifi_down_start, fire |-> FALSE]
  ELSE [start |-> None, fire |-> FALSE]

\* "Check WiFi connectivity": restart_modem_usb is followed by the timer reset
WifiCheck(wifi_status, current_time) ==
  IF ~wifi_status
  THEN IF wifi_down_start = None
       THEN [start |-> current_time, fire |-> FALSE]
       ELSE IF current_time - wifi_down_start >= wifi_timeout
            THEN [start |-> None, fire |-> TRUE]
            ELSE [start |-> wifi_down_start, fire |-> FALSE]
  ELSE [start |-> None, fire |-> FALSE]

\* CpuLog with the warning on every sample over the threshold
CpuLogEveryTick(cpu_usage, current_time) ==
  IF cpu_usage > cpu_threshold
  THEN IF cpu_high_start = None
       THEN "warning"
       ELSE IF current_time - cpu_high_start >= duration_threshold
            THEN "critical"
            ELSE "warning"
  ELSE IF cpu_high_start # None THEN "recovery" ELSE "none"

\* the logging call of the CPU block: logging.warning when the timer is set,
\* logging.critical before trigger_reboot, logging.info when it is cleared
CpuLog(cpu_usage, current_time) ==
  IF cpu_usage > cpu_threshold
  THEN IF cpu_high_start = None
       THEN "warning"
       ELSE IF current_time - cpu_high_start >= duration_threshold
            THEN "critical"
            ELSE "none"
  ELSE IF cpu_high_start # None THEN "recovery" ELSE "none"

\* the logging call of the RAM block
RamLog(ram_usage, current_time) ==
  IF ram_usage > ram_threshold
  THEN IF ram_high_start = None
       THEN "warning"
       ELSE IF current_time - ram_high_start >= duration_threshold
            THEN "critical"
            ELSE "none"
  ELSE IF ram_high_start # None THEN "recovery" ELSE "none"

\* ---- scripts/analysis/kernel_log_analyzer.py: KernelLogAnalyzer ----
\* The pattern lists of __init__, in their order. Every pattern is literal
\* text with ".*" between its parts; it is written as the tuple of its parts.
critical_patterns == <<
  <<"Kernel panic">>,
  <<"Unable to mount root">>,
  <<"Fatal exception">>,
  <<"System halted">>,
  <<"Oops:">>,
  <<"BUG:">>,
  <<"Unable to handle kernel">>,
  <<"Segmentation fault">>,
  <<"Stack overflow">>,
  <<"rockchip-pcie", "link", "failed">>,
  <<"rockchip-cpufreq", "critical">>,
  <<"rk3588", "thermal", "critical">>,
  <<"coresight-mali", "fault">>,
  <<"rockchip-efuse", "error">>,
  <<"rk3588", "panic">>,
  <<"rockchip", "fatal", "error">>
  >>

error_patterns == <<
  <<"ERROR:">>,
  <<"Failed to">>,
  <<"Could not">>,
  <<"Unable to">>,
  <<"Device not found">>,
  <<"Module not found">>,
  <<"Timeout">>,
  <<"Connection refused">>,
  <<"rockchip-pinctrl", "error">>,
  <<"rockchip-saradc", "failed">>,
  <<"rockchip-otp", "error">>,
  <<"pcie-rockchip", "error">>,
  <<"rockchip-cpufreq", "failed">>,
  <<"rockchip-efuse", "failed">>,
  <<"rk3588", "error">>,
  <<"rockchip", "driver", "failed">>
  >>

warning_patterns == <<
  <<"WARNING:">>,
  <<"Warning:">>,
  <<"Deprecated">>,
  <<"Obsolete">>,
  <<"Experimental">>,
  <<"Unstable">>,
  <<"rockchip", "warning">>,
  <<"rk3588", "warning">>,
  <<"rockchip-pcie", "warning">>,
  <<"rockchip-cpufreq", "warning">>,
  <<"coresight-mali", "warning">>
  >>

info_patterns == <<
  <<"INFO:">>,
  <<"Info:">>,
  <<"Loading">>,
  <<"Initializing">>,
  <<"Starting">>,
  <<"Stopping">>
  >>

Uppers == "ABCDEFGHIJKLMNOPQRSTUVWXYZ"
Lowers == "abcdefghijklmnopqrstuvwxyz"

\* the least index >= from at which text occurs in s, 0 when it does not
Find(text, s, from) ==
  LET at_ == {i \in from..(Len(s) - Len(text) + 1) :
                SubSeq(s, i, i + Len(text) - 1) = text}
  IN IF at_ = {} THEN 0 ELSE CHOOSE i \in at_ : \A k \in at_ : i <= k

\* the letter of the other case, for the letters of either alphabet
ToLower ==
  [c \in {SubSeq(Uppers, i, i) : i \in 1..Len(Uppers)} |->
     LET i == Find(c, Uppers, 1) IN SubSeq(Lowers, i, i)]
ToUpper ==
  [c \in {SubSeq(Lowers, i, i) : i \in 1..Len(Lowers)} |->
     LET i == Find(c, Lowers, 1) IN SubSeq(Uppers, i, i)]

LowerChar(c) == IF c \in DOMAIN ToLower THEN ToLower[c] ELSE c
UpperChar(c) == IF c \in DOMAIN ToUpper THEN ToUpper[c] ELSE c
SwapChar(c) == IF c \in DOMAIN ToLower THEN ToLower[c] ELSE UpperChar(c)

\* s with the case of its letters changed: all to upper case, all to lower
\* case, all swapped, or the letters at odd (even) positions swapped; k is the
\* position of the first character of s
RECURSIVE ChangeCase(_, _, _)
ChangeCase(s, how, k) ==
  IF s = "" THEN ""
  ELSE LET c == SubSeq(s, 1, 1)
           d == IF how = "upper" THEN UpperChar(c)
                ELSE IF how = "lower" THEN LowerChar(c)
                ELSE IF how = "swap" THEN SwapChar(c)
                ELSE IF how = "odd" /\ k % 2 = 1 THEN SwapChar(c)
                ELSE IF how = "even" /\ k % 2 = 0 THEN SwapChar(c)
                ELSE c
       IN d \o ChangeCase(SubSeq(s, 2, Len(s)), how, k + 1)

CaseChanges == {"upper", "lower", "swap", "odd", "even"}

\* str.strip(): the line without its leading and trailing blanks
RECURSIVE strip(_)
strip(s) ==
  IF s = "" THEN s
  ELSE IF SubSeq(s, 1, 1) = " " THEN strip(SubSeq(s, 2, Len(s)))
  ELSE IF SubSeq(s, Len(s), Len(s)) = " " THEN strip(SubSeq(s, 1, Len(s) - 1))
  ELSE s

\* the parts of a pattern occur in s in their order, each after the end of
\* the one before it, the first of them at or after from
RECURSIVE MatchFrom(_, _, _)
MatchFrom(parts, s, from) ==
  IF parts = <<>> THEN TRUE
  ELSE LET i == Find(Head(parts), s, from)
       IN i # 0 /\ MatchFrom(Tail(parts), s, i + Len(Head(parts)))

\* matching without re.IGNORECASE: no folding
casefoldNone(s) == s

\* the folding of re.IGNORECASE: text and pattern are compared with their
\* letters in lower case
casefold(s) == ChangeCase(s, "lower", 1)

\* the pattern lists as re.IGNORECASE compares them
FoldAll(patterns) ==
  [i \in 1..Len(patterns) |->
     [k \in 1..Len(patterns[i]) |-> casefold(patterns[i][k])]]
critical_folded == FoldAll(critical_patterns)
error_folded == FoldAll(error_patterns)
warning_folded == FoldAll(warning_patterns)
info_folded == FoldAll(info_patterns)

\* for pattern in patterns: if re.search(pattern, line, re.IGNORECASE): the
\* index of the first pattern of the list found in the line, 0 when none is;
\* t is the line as re.IGNORECASE compares it
FirstMatch(folded, t) ==
  LET hits == {i \in 1..Len(folded) : MatchFrom(folded[i], t, 1)}
  IN IF hits = {} THEN 0 ELSE CHOOSE i \in hits : \A k \in hits : i <= k

\* what analyze_log_line returns: the level and the pattern found
Result(level, patterns, i) ==
  [level |-> level, pattern |-> IF i = 0 THEN <<>> ELSE patterns[i]]

\* analyze_log_line with the lists tried from the least severe one
analyze_log_lineInfoFirst(text) ==
  LET s == casefold(strip(text))
      c == FirstMatch(critical_folded, s)
      e == FirstMatch(error_folded, s)
      w == FirstMatch(warning_folded, s)
      n == FirstMatch(info_folded, s)
  IN IF n # 0 THEN Result("info", info_patterns, n)
     ELSE IF w # 0 THEN Result("warning", warning_patterns, w)
     ELSE IF e # 0 THEN Result("error", error_patterns, e)
     ELSE IF c # 0 THEN Result("critical", critical_patterns, c)
     ELSE Result("debug", <<>>, 0)

\* analyze_log_line: the lists are tried in the order critical, error,
\* warning, info; the first pattern found decides
analyze_log_line(text) ==
  LET s == casefold(strip(text))
      c == FirstMatch(critical_folded, s)
      e == FirstMatch(error_folded, s)
      w == FirstMatch(warning_folded, s)
      n == FirstMatch(info_folded, s)
  IN IF c # 0 THEN Result("critical", critical_patterns, c)
     ELSE IF e # 0 THEN Result("error", error_patterns, e)
     ELSE IF w # 0 THEN Result("warning", warning_patterns, w)
     ELSE IF n # 0 THEN Result("info", info_patterns, n)
     ELSE Result("debug", <<>>, 0)

\* no call of analyze_log_line has returned yet
NoVerdict == [level |-> "none", pattern |-> <<>>]

\* analyze_log_file has not yet built its counts
NoStats == [l \in {} |-> 0]
\* no stored boot ID: current_boot_file does not exist
Absent == <<>>
\* no crash report: the run generated none
NoReport == <<>>
\* no run of the crash reporter yet
NoRun == [stored |-> Absent, current |-> None, boot |-> None,
          report |-> NoReport, removed |-> {}]
\* parse_kmsg_line has returned nothing yet
NoData == [returned |-> "pending", priority |-> None, timestamp |-> None,
           message |-> ""]

\* the pieces of text the lines of the model are made of
Fragments == {
  "Kernel panic", ": oops", "ERROR: ", "Unable to", " handle kernel",
  "Warning: ", "Failed to", "INFO: Loading", "rk3588 thermal", " critical",
  "usb 1-1", " "
  }

\* the lines of at most n fragments
RECURSIVE LinesOf(_)
LinesOf(n) ==
  IF n = 0 THEN {""}
  ELSE LET shorter == LinesOf(n - 1)
       IN shorter \cup {l \o f : l \in shorter, f \in Fragments}


\* ------------------------------------------------------------ actions ----
\* the clock read of the next check_and_trigger: the inter-sample sleep and the
\* sampling interval (dt), after the 5 s sleep of a trigger_reboot that returned
NextTime(dt) ==
  now + dt + (IF last.action \in Metrics THEN RebootDelay ELSE 0)

\* subprocess.run(['reboot']) either takes the process down or returns
AfterReboot(returns) == IF returns THEN "running" ELSE "rebooted"

\* run(), one iteration in which a psutil read raises: the exception leaves
\* check_and_trigger before any field is written and run() re-raises it
SampleError ==
  /\ pc = "running"
  /\ \E dt \in 1..MaxGap, cpu_usage \in Readings, ram_usage \in Readings :
       /\ cpu_usage = Unavailable \/ ram_usage = Unavailable
       /\ NextTime(dt) <= horizon
       /\ pc' = "error"
       /\ now' = NextTime(dt)
       /\ last' = [cpu |-> cpu_usage, ram |-> ram_usage, wifi |-> "none",
                   action |-> "none"]
       /\ UNCHANGED <<config, fields, horizon, position, elsewhere>>

\* check_and_trigger without the return after trigger_reboot: the RAM block
\* runs in every iteration
CheckAndTriggerOnNoReturn(Gaps, CpuValues, RamValues) ==
  /\ pc = "running"
  /\ cls = "WatchdogMonitor"
  /\ \E dt \in Gaps, cpu_usage \in CpuValues, ram_usage \in RamValues,
        returns \in BOOLEAN :
       LET current_time == NextTime(dt)
           c == CpuCheck(cpu_usage, current_time)
           r == RamCheck(ram_usage, current_time)
           seen(action) == [cpu |-> cpu_usage, ram |-> ram_usage,
                            wifi |-> "none", action |-> action]
       IN /\ current_time <= horizon
          /\ now' = current_time
          /\ cpu_high_start' = c.start
          /\ ram_high_start' = r.start
          /\ UNCHANGED wifi_down_start
          /\ IF c.fire
             THEN /\ pc' = AfterReboot(returns)
                  /\ UNCHANGED last_log_time
                  /\ last' = seen("cpu")
             ELSE IF r.fire
             THEN /\ pc' = AfterReboot(returns)
                  /\ UNCHANGED last_log_time
                  /\ last' = seen("ram")
             ELSE /\ returns
                  /\ pc' = pc
                  /\ last_log_time' = log_status(current_time)
                  /\ last' = seen("none")
          /\ UNCHANGED <<config, horizon, position, elsewhere>>

\* WatchdogMonitor.check_and_trigger, the samples and the time since the
\* previous iteration drawn from the given sets
CheckAndTriggerOn(Gaps, CpuValues, RamValues) ==
  /\ pc = "running"
  /\ cls = "WatchdogMonitor"
  /\ \E dt \in Gaps, cpu_usage \in CpuValues, ram_usage \in RamValues,
        returns \in BOOLEAN :
       LET current_time == NextTime(dt)
           c == CpuCheck(cpu_usage, current_time)
           r == RamCheck(ram_usage, current_time)
           seen(action) == [cpu |-> cpu_usage, ram |-> ram_usage,
                            wifi |-> "none", action |-> action]
       IN /\ current_time <= horizon
          /\ now' = current_time
          /\ IF c.fire
             THEN /\ pc' = AfterReboot(returns)
                  /\ UNCHANGED fields
                  /\ last' = seen("cpu")
             ELSE IF r.fire
             THEN /\ pc' = AfterReboot(returns)
                  /\ cpu_high_start' = c.start
                  /\ UNCHANGED <<ram_high_start, wifi_down_start, last_log_time>>
                  /\ last' = seen("ram")
             ELSE /\ returns
                  /\ pc' = pc
                  /\ cpu_high_start' = c.start
                  /\ ram_high_start' = r.start
                  /\ last_log_time' = log_status(current_time)
                  /\ UNCHANGED wifi_down_start
                  /\ last' = seen("none")
          /\ UNCHANGED <<config, horizon, position, elsewhere>>

CheckAndTrigger == CheckAndTriggerOn(1..MaxGap, Samples, Samples)

\* EnhancedWatchdogMonitor.check_and_trigger, the samples, the probe outcome
\* and the time since the previous iteration drawn from the given sets
EnhancedCheckAndTriggerOn(Gaps, CpuValues, RamValues, ProbeValues) ==
  /\ pc = "running"
  /\ cls = "EnhancedWatchdogMonitor"
  /\ \E dt \in Gaps, cpu_usage \in CpuValues, ram_usage \in RamValues,
        probe \in ProbeValues, returns \in BOOLEAN :
       LET current_time == NextTime(dt)
           wifi_status == check_wifi_connectivity(probe)
           c == CpuCheck(cpu_usage, current_time)
           r == RamCheck(ram_usage, current_time)
           w == WifiCheck(wifi_status, current_time)
           seen(action) == [cpu |-> cpu_usage, ram |-> ram_usage,
                            wifi |-> probe, action |-> action]
       IN /\ current_time <= horizon
          /\ now' = current_time
          /\ IF c.fire
             THEN /\ pc' = AfterReboot(returns)
                  /\ UNCHANGED fields
                  /\ last' = seen("cpu")
             ELSE IF r.fire
             THEN /\ pc' = AfterReboot(returns)
                  /\ cpu_high_start' = c.start
                  /\ UNCHANGED <<ram_high_start, wifi_down_start, last_log_time>>
                  /\ last' = seen("ram")
             ELSE IF w.fire
             THEN /\ returns
                  /\ pc' = pc
                  /\ cpu_high_start' = c.start
                  /\ ram_high_start' = r.start
                  /\ wifi_down_start' = w.start
                  /\ UNCHANGED last_log_time
                  /\ last' = seen("wifi")
             ELSE /\ returns
                  /\ pc' = pc
                  /\ cpu_high_start' = c.start
                  /\ ram_high_start' = r.start
                  /\ wifi_down_start' = w.start
                  /\ last_log_time' = log_status(current_time)
                  /\ last' = seen("none")
          /\ UNCHANGED <<config, horizon, position, elsewhere>>

EnhancedCheckAndTrigger ==
  EnhancedCheckAndTriggerOn(1..MaxGap, Samples, Samples, Probes)

\* ---- run() of WatchdogMonitor followed call by call ----
\* the exceptions raised inside the try of run(): KeyboardInterrupt anywhere,
\* an Exception by a psutil read or by subprocess.run in trigger_reboot
Exceptions == {"KeyboardInterrupt", "OSError"}

\* run() with a handler that resumes the loop after the exception
RunHandlerResumes(exc) == "running"

\* the except clauses of run(): KeyboardInterrupt is logged and run() returns,
\* any Exception is logged and raised again
RunHandler(exc) == IF exc = "KeyboardInterrupt" THEN "stopped" ELSE "error"

\* run() logs its start and enters the loop
EnterLoop ==
  /\ pc = "running"
  /\ at = "loop"
  /\ cls = "WatchdogMonitor"
  /\ at' = "sample"
  /\ UNCHANGED <<config, fields, now, horizon, pc, interrupted, last, elsewhere>>

\* check_and_trigger up to its return or its call of trigger_reboot
SampleStep ==
  /\ pc = "running"
  /\ at = "sample"
  /\ \E dt \in 1..MaxGap, cpu_usage \in Samples, ram_usage \in Samples :
       LET current_time == now + dt
           c == CpuCheck(cpu_usage, current_time)
           r == RamCheck(ram_usage, current_time)
       IN /\ current_time <= horizon
          /\ now' = current_time
          /\ last' = [cpu |-> cpu_usage, ram |-> ram_usage, wifi |-> "none",
                      action |-> "none"]
          /\ IF c.fire
             THEN /\ at' = "cpu"
                  /\ UNCHANGED fields
             ELSE IF r.fire
             THEN /\ at' = "ram"
                  /\ cpu_high_start' = c.start
                  /\ UNCHANGED <<ram_high_start, wifi_down_start, last_log_time>>
             ELSE /\ at' = "sleep"
                  /\ cpu_high_start' = c.start
                  /\ ram_high_start' = r.start
                  /\ last_log_time' = log_status(current_time)
                  /\ UNCHANGED wifi_down_start
  /\ UNCHANGED <<config, horizon, pc, interrupted, elsewhere>>

\* trigger_reboot: time.sleep(5) ends and the reboot command is run
RebootStep ==
  /\ pc = "running"
  /\ at \in Metrics
  /\ now + RebootDelay <= horizon
  /\ \E returns \in BOOLEAN :
       /\ pc' = AfterReboot(returns)
       /\ at' = IF returns THEN "sleep" ELSE at
  /\ now' = now + RebootDelay
  /\ last' = [last EXCEPT !.action = at]
  /\ UNCHANGED <<config, fields, horizon, interrupted, elsewhere>>

\* time.sleep(1) of run() ends
SleepStep ==
  /\ pc = "running"
  /\ at = "sleep"
  /\ now + 1 <= horizon
  /\ now' = now + 1
  /\ at' = "sample"
  /\ UNCHANGED <<config, fields, horizon, pc, interrupted, last, elsewhere>>

\* an exception is raised where run() is and reaches the handlers of run():
\* neither check_and_trigger nor trigger_reboot catches anything
Raise ==
  /\ pc = "running"
  /\ at # "loop"
  /\ \E exc \in Exceptions :
       /\ exc = "OSError" => at \in {"sample", "cpu", "ram"}
       /\ pc' = RunHandler(exc)
       /\ interrupted' = (interrupted \/ exc = "KeyboardInterrupt")
  /\ UNCHANGED <<config, fields, now, horizon, at, last, elsewhere>>

\* ---- ysuite.py: the JSON files of YLog, YCrash and YPower ----
\* logs[:cap] instead of logs[-cap:]
KeepOldest(logs, cap) ==
  IF Len(logs) > cap THEN SubSeq(logs, 1, cap) ELSE logs

\* if len(logs) > cap: logs = logs[-cap:]
KeepLast(logs, cap) ==
  IF Len(logs) > cap THEN SubSeq(logs, Len(logs) - cap + 1, Len(logs))
  ELSE logs

\* load the list (an unreadable file gives []), append the entry, keep the
\* last cap entries, write the file
LogTo(kind, cap) ==
  /\ store = kind
  /\ appended < cap + MaxExtra
  /\ failed_at # 0 => appended < failed_at + MaxExtra
  /\ \E readable \in BOOLEAN :
       LET logs == IF file_exists /\ readable THEN file_content ELSE <<>>
           event == appended + 1
       IN /\ ~readable => (file_exists /\ failed_at = 0)
          /\ file_content' = KeepLast(Append(logs, event), cap)
          /\ failed_at' = IF readable THEN failed_at ELSE event
  /\ file_exists' = TRUE
  /\ appended' = appended + 1
  /\ UNCHANGED <<watchdog, analyzer, store, beyond>>

log_critical_event == LogTo("YLog", LogCap)
log_crash_event == LogTo("YCrash", CrashCap)
log_power_data == LogTo("YPower", PowerCap)

\* analyze_log_line called for a line and for the line with its case changed
AnalyzeLine ==
  /\ verdict = NoVerdict
  /\ \E how \in CaseChanges :
       /\ variant' = ChangeCase(line, how, 1)
       /\ verdict' = analyze_log_line(line)
       /\ verdict_variant' = analyze_log_line(variant')
  /\ UNCHANGED <<watchdog, line, stores, beyond>>

\* ------------------------------------------------------------ history ----
\* The history variables observe the samples; they are no state of the program.
Exceeds(m, seen) ==
  IF m = "cpu" THEN seen.cpu > cpu_threshold ELSE seen.ram > ram_threshold

Bump(n) == IF n >= 2 THEN 2 ELSE n + 1

\* a read that raised delivered no sample
Failed(seen) == seen.cpu = Unavailable \/ seen.ram = Unavailable

\* the start of the current run of m after the iteration recorded in last':
\* a failed read holds it
RunEntry(m) ==
  IF Failed(last') THEN entry[m]
  ELSE IF Exceeds(m, last')
       THEN (IF entry[m] = None THEN now' ELSE entry[m])
       ELSE None

\* the history of the runs after the iteration recorded in last'
Track ==
  LET e == [m \in Metrics |-> RunEntry(m)]
  IN /\ entry' = e
     /\ fires' = [m \in Metrics |->
                    IF e[m] = None THEN 0
                    ELSE IF last'.action = m THEN Bump(fires[m]) ELSE fires[m]]
     /\ prev' = [m \in Metrics |->
                    IF entry[m] # None /\ e[m] = None
                    THEN (IF fires[m] > 0 THEN "fired"
                          ELSE IF now > entry[m] THEN "quiet" ELSE "point")
                    ELSE prev[m]]
     /\ everHigh' = (everHigh \/ (~Failed(last') /\ \E m \in Metrics : Exceeds(m, last')))
     /\ everLong' = (everLong \/ (~Failed(last') /\ \E m \in Metrics :
                       /\ Exceeds(m, last')
                       /\ entry[m] # None
                       /\ now' - entry[m] >= duration_threshold))
     /\ UNCHANGED <<jitter, observed>>

\* the history of the polling cadence and of the current runs alone
TrackCadence ==
  /\ entry' = [m \in Metrics |-> RunEntry(m)]
  /\ jitter' = (jitter \/ now' - now > 1)
  /\ UNCHANGED <<fires, prev, everHigh, everLong, observed>>

Untracked ==
  UNCHANGED <<entry, fires, prev, jitter, everHigh, everLong, observed>>

\* what the CPU and RAM blocks logged in the iteration recorded in last': the
\* RAM block does not run after the return that follows a CPU reboot, and no
\* block runs when a sample read raised
Logged ==
  [m \in Metrics |->
     IF Failed(last') THEN "none"
     ELSE IF m = "cpu" THEN CpuLog(last'.cpu, now')
     ELSE IF last'.action = "cpu" THEN "none"
     ELSE RamLog(last'.ram, now')]

\* the history of the runs and of the log messages
TrackLog ==
  /\ entry' = [m \in Metrics |-> RunEntry(m)]
  /\ logged' = Logged
  /\ UNCHANGED <<fires, prev, jitter, everHigh, everLong, wifi_hist>>

\* the WiFi block of check_and_trigger ran in the iteration recorded in last'
WifiReached == ~Failed(last') /\ last'.action \notin Metrics

\* the history of the connectivity checks after the iteration recorded in last'
TrackWifi ==
  LET up == last'.wifi \in Probes /\ check_wifi_connectivity(last'.wifi)
      since(flag, seen) ==
        IF wifi_down_start' = None \/ wifi_down_start = None THEN FALSE
        ELSE flag \/ seen
  IN /\ wifi_hist' =
          [restarts |-> IF up THEN 0
                        ELSE IF last'.action = "wifi"
                             THEN Bump(wifi_hist.restarts)
                             ELSE wifi_hist.restarts,
           last_restart |-> IF last'.action = "wifi" THEN now'
                            ELSE wifi_hist.last_restart,
           upSeen |-> since(wifi_hist.upSeen, up),
           upReached |-> since(wifi_hist.upReached, up /\ WifiReached)]
     /\ UNCHANGED <<entry, fires, prev, jitter, everHigh, everLong, logged>>

\* ----------------------------------------------------- specifications ----
\* the fields as __init__ leaves them
InitFields ==
  /\ cpu_high_start = None
  /\ ram_high_start = None
  /\ wifi_down_start = None
  /\ last_log_time = 0
  /\ now = T0
  /\ pc = "running"
  /\ at = "loop"
  /\ interrupted = FALSE
  /\ last = [cpu |-> None, ram |-> None, wifi |-> "none", action |-> "none"]
  /\ entry = [m \in Metrics |-> None]
  /\ fires = [m \in Metrics |-> 0]
  /\ prev = [m \in Metrics |-> "none"]
  /\ jitter = FALSE
  /\ everHigh = FALSE
  /\ everLong = FALSE
  /\ logged = [m \in Metrics |-> "none"]
  /\ wifi_hist = [restarts |-> 0, last_restart |-> None, upSeen |-> FALSE,
                  upReached |-> FALSE]

\* the other programs of the suite have not run
IdleStores ==
  /\ store = "YLog"
  /\ file_exists = FALSE
  /\ file_content = <<>>
  /\ appended = 0
  /\ failed_at = 0

IdleAnalyzer ==
  /\ line = ""
  /\ variant = ""
  /\ verdict = NoVerdict
  /\ verdict_variant = NoVerdict

IdleReport ==
  /\ path_exists = FALSE
  /\ log_lines = <<>>
  /\ stats = NoStats
  /\ records = <<>>
  /\ returned = "pending"

IdleCrash ==
  /\ kernel_boot_id = 0
  /\ current_boot_file = Absent
  /\ crash_files = {}
  /\ wall = 0
  /\ runs = 0
  /\ boots = 0
  /\ last_run = NoRun

IdleKmsg ==
  /\ kmsg_line = ""
  /\ msg_data = NoData
  /\ level_logged = "none"

IdleStress ==
  /\ test = "CleanStressTest"
  /\ as_script = TRUE
  /\ running = TRUE
  /\ gpu_process = None
  /\ cpu_processes = <<>>
  /\ children = <<>>
  /\ main_at = "init"
  /\ gpu_at = "idle"
  /\ memory_at = "idle"
  /\ sigint = FALSE

IdleBeyond == IdleReport /\ IdleCrash /\ IdleKmsg /\ IdleStress

IdleElsewhere == IdleAnalyzer /\ IdleStores /\ IdleBeyond

\* the watchdog constructed and not running, in the specifications of the
\* other programs
IdleWatchdog ==
  /\ cls = "WatchdogMonitor"
  /\ cpu_threshold = DefaultThreshold
  /\ ram_threshold = DefaultThreshold
  /\ duration_threshold = DefaultDuration
  /\ wifi_timeout = DefaultWifiTimeout
  /\ horizon = T0
  /\ InitFields

\* WatchdogMonitor(80, 80, d) for small d, with the history of its samples
Init ==
  /\ cls = "WatchdogMonitor"
  /\ cpu_threshold = DefaultThreshold
  /\ ram_threshold = DefaultThreshold
  /\ duration_threshold \in 2..MaxDuration
  /\ wifi_timeout = DefaultWifiTimeout
  /\ horizon = T0 + MaxTime
  /\ InitFields
  /\ IdleElsewhere

Next ==
  \/ SampleError /\ Track
  \/ CheckAndTrigger /\ Track

Spec == Init /\ [][Next]_vars

\* either monitor, with a small duration and a WiFi timeout longer than it (as
\* 60 s is longer than 15 s in __main__)
InitAll ==
  /\ cls \in Classes
  /\ cpu_threshold = DefaultThreshold
  /\ ram_threshold = DefaultThreshold
  /\ duration_threshold = MaxDuration - 1
  /\ wifi_timeout = MaxDuration
  /\ horizon = T0 + MaxTime
  /\ InitFields
  /\ IdleElsewhere

NextAll ==
  \/ SampleError /\ Untracked
  \/ CheckAndTrigger /\ Untracked
  \/ EnhancedCheckAndTrigger /\ Untracked

SpecAll == InitAll /\ [][NextAll]_vars

\* WatchdogMonitor(80, 80, 15), the configuration of __main__, followed until
\* its first deadline has passed
ScenarioTick == CheckAndTriggerOn(1..MaxGap, {50, 85}, {80, 85})

InitScenario ==
  /\ cls = "WatchdogMonitor"
  /\ cpu_threshold = DefaultThreshold
  /\ ram_threshold = DefaultThreshold
  /\ duration_threshold = DefaultDuration
  /\ wifi_timeout = DefaultWifiTimeout
  /\ horizon = T0 + DefaultDuration + MaxGap
  /\ InitFields
  /\ IdleElsewhere

NextScenario == ScenarioTick /\ TrackCadence

SpecScenario == InitScenario /\ [][NextScenario]_vars

\* EnhancedWatchdogMonitor with a small WiFi timeout, with the history of its
\* connectivity checks
WifiTick == EnhancedCheckAndTriggerOn(1..MaxGap, {50, 85}, {50}, Probes)

InitWifi ==
  /\ cls = "EnhancedWatchdogMonitor"
  /\ cpu_threshold = DefaultThreshold
  /\ ram_threshold = DefaultThreshold
  /\ duration_threshold = MaxDuration - 1
  /\ wifi_timeout = MaxDuration
  /\ horizon = T0 + MaxTime
  /\ InitFields
  /\ IdleElsewhere

NextWifi == WifiTick /\ TrackWifi

SpecWifi == InitWifi /\ [][NextWifi]_vars

\* WatchdogMonitor(80, 80, d) with the history of its log messages
InitLog ==
  /\ cls = "WatchdogMonitor"
  /\ cpu_threshold = DefaultThreshold
  /\ ram_threshold = DefaultThreshold
  /\ duration_threshold = MaxDuration - 1
  /\ wifi_timeout = DefaultWifiTimeout
  /\ horizon = T0 + MaxTime
  /\ InitFields
  /\ IdleElsewhere

NextLog ==
  \/ SampleError /\ TrackLog
  \/ CheckAndTrigger /\ TrackLog

SpecLog == InitLog /\ [][NextLog]_vars

\* WatchdogMonitor(80, 80, d).run() followed call by call
InitCancel ==
  /\ cls = "WatchdogMonitor"
  /\ cpu_threshold = DefaultThreshold
  /\ ram_threshold = DefaultThreshold
  /\ duration_threshold = MaxDuration - 1
  /\ wifi_timeout = DefaultWifiTimeout
  /\ horizon = T0 + MaxTime
  /\ InitFields
  /\ IdleElsewhere

NextCancel ==
  \/ EnterLoop /\ Untracked
  \/ SampleStep /\ Untracked
  \/ RebootStep /\ Untracked
  \/ SleepStep /\ Untracked
  \/ Raise /\ Untracked

SpecCancel == InitCancel /\ [][NextCancel]_vars

\* KernelLogAnalyzer.analyze_log_line on the lines of at most MaxWords
\* fragments
InitAnalyze ==
  /\ IdleWatchdog
  /\ line \in LinesOf(MaxWords)
  /\ variant = ""
  /\ verdict = NoVerdict
  /\ verdict_variant = NoVerdict
  /\ IdleStores
  /\ IdleBeyond

NextAnalyze == AnalyzeLine

SpecAnalyze == InitAnalyze /\ [][NextAnalyze]_vars

\* one of YLog, YCrash, YPower, its JSON file not yet written
InitStores ==
  /\ IdleWatchdog
  /\ IdleAnalyzer
  /\ store \in {"YLog", "YCrash", "YPower"}
  /\ file_exists = FALSE
  /\ file_content = <<>>
  /\ appended = 0
  /\ failed_at = 0
  /\ IdleBeyond

NextStores ==
  \/ log_critical_event
  \/ log_crash_event
  \/ log_power_data

SpecStores == InitStores /\ [][NextStores]_vars

\* either monitor with duration_threshold 0 and wifi_timeout 0
InitZero ==
  /\ cls \in Classes
  /\ cpu_threshold = DefaultThreshold
  /\ ram_threshold = DefaultThreshold
  /\ duration_threshold = 0
  /\ wifi_timeout = 0
  /\ horizon = T0 + MaxTime
  /\ InitFields
  /\ IdleElsewhere

NextZero ==
  \/ CheckAndTrigger /\ Untracked
  \/ EnhancedCheckAndTrigger /\ Untracked

SpecZero == InitZero /\ [][NextZero]_vars

\* either monitor constructed with thresholds and a duration that may be out
\* of range (threshold 0, duration -1): __init__ stores what it is given
BadThreshold == 0
BadDuration == -1

InitConfig ==
  /\ cls \in Classes
  /\ cpu_threshold \in {BadThreshold, DefaultThreshold}
  /\ ram_threshold \in {BadThreshold, DefaultThreshold}
  /\ duration_threshold \in {BadDuration, MaxDuration - 1}
  /\ wifi_timeout = MaxDuration
  /\ horizon = T0 + MaxDuration + 1
  /\ InitFields
  /\ IdleElsewhere

NextConfig ==
  \/ CheckAndTrigger /\ Untracked
  \/ EnhancedCheckAndTrigger /\ Untracked

SpecConfig == InitConfig /\ [][NextConfig]_vars

\* ------------------------------------------------------------- claims ----
\* an iteration that read both samples has just run
Ticked == now' > now /\ ~Failed(last')

\* the check of the metric finds it over the threshold for long enough
CpuDue ==
  /\ last'.cpu > cpu_threshold
  /\ cpu_high_start # None
  /\ now' - cpu_high_start >= duration_threshold

RamDue ==
  /\ last'.ram > ram_threshold
  /\ ram_high_start # None
  /\ now' - ram_high_start >= duration_threshold

\* C1: as long as every CPU sample and every RAM sample has been <= its
\* threshold, no iteration dispatches trigger_reboot, whatever the number of
\* iterations and the time between them.
C1_NoRebootBelowThreshold == ~everHigh => last.action = "none"

C1_Witness ==
  /\ ~everHigh
  /\ pc = "running"
  /\ now >= T0 + 2 * MaxDuration
  /\ last.cpu = cpu_threshold
  /\ last.ram = 50

\* C2: during one unbroken run of samples > threshold of a metric the
\* corrective action of that metric is dispatched at most once, also when the
\* reboot command returns and the monitor goes on.
C2_AtMostOncePerExcursion == \A m \in Metrics : fires[m] <= 1

C4_NoAccumulation == ~everLong => last.action = "none"

\* a second CPU run which, added to the one before it, is over the duration
C4_Witness ==
  /\ ~everLong
  /\ pc = "running"
  /\ prev["cpu"] = "quiet"
  /\ entry["cpu"] # None
  /\ now - entry["cpu"] >= duration_threshold - 1
  /\ last.action = "none"

C7_FailedReadIsHold ==
  (Failed(last) /\ (cpu_high_start # None \/ ram_high_start # None))
    => (pc = "running" /\ last.action = "none")

\* C8: a probe of the link that fails (exception or timeout inside
\* check_wifi_connectivity) is "value unknown": the iteration neither starts
\* nor moves the WiFi timer and does not dispatch the interface restart.
C8_ProbeFailureIsUnknown ==
  [][(now' > now /\ last'.wifi = "timeout")
       => (wifi_down_start' = wifi_down_start /\ last'.action # "wifi")]_vars

\* the timer of the metric is clear exactly when the sample just read is not
\* over the threshold
CpuTimerTracks == (cpu_high_start = None) = ~(last.cpu > cpu_threshold)
RamTimerTracks == (ram_high_start = None) = ~(last.ram > ram_threshold)
WifiTimerTracks == (wifi_down_start = None) = check_wifi_connectivity(last.wifi)

Solo(start, exceeded, current_time, limit, resets) ==
  IF exceeded
  THEN IF start = None
       THEN [start |-> current_time, fire |-> FALSE]
       ELSE IF current_time - start >= limit
            THEN [start |-> IF resets THEN None ELSE start, fire |-> TRUE]
            ELSE [start |-> start, fire |-> FALSE]
  ELSE [start |-> None, fire |-> FALSE]

CpuAlone ==
  [start |-> cpu_high_start', fire |-> last'.action = "cpu"]
    = Solo(cpu_high_start, last'.cpu > cpu_threshold, now',
           duration_threshold, FALSE)

RamAlone ==
  [start |-> ram_high_start', fire |-> last'.action = "ram"]
    = Solo(ram_high_start, last'.ram > ram_threshold, now',
           duration_threshold, FALSE)

WifiAlone ==
  [start |-> wifi_down_start', fire |-> last'.action = "wifi"]
    = Solo(wifi_down_start, ~check_wifi_connectivity(last'.wifi), now',
           wifi_timeout, TRUE)

WifiDown == last'.wifi \in Probes /\ ~check_wifi_connectivity(last'.wifi)

DueByClock(m) ==
  /\ Exceeds(m, last')
  /\ entry[m] # None
  /\ now' - entry[m] >= duration_threshold

C14_StatusLinesThrottled ==
  [][last_log_time' # last_log_time =>
       /\ last_log_time' = now'
       /\ now' - last_log_time >= LogInterval
    ]_vars

\* a status line that is not the first: the first iteration of a run always
\* writes one
C14_Witness ==
  /\ last_log_time = now
  /\ now >= T0 + MaxGap + LogInterval
  /\ last.action = "none"
  /\ pc = "running"

\* a configuration the spec calls invalid
InvalidConfig ==
  cpu_threshold <= 0 \/ ram_threshold <= 0 \/ duration_threshold < 0

\* C13: a monitor constructed with a threshold <= 0 or a duration < 0 runs no
\* iteration of the monitoring loop and dispatches no corrective action.
C13_InvalidConfigRefused ==
  InvalidConfig => (now = T0 /\ last.action = "none")

\* the start-time field of metric m before and after the iteration
StartBefore(m) == IF m = "cpu" THEN cpu_high_start ELSE ram_high_start
StartAfter(m) == IF m = "cpu" THEN cpu_high_start' ELSE ram_high_start'

\* the block of metric m ran in the iteration recorded in last'
Reached(m) == ~Failed(last') /\ (m = "ram" => last'.action # "cpu")

C15_InterruptStopsLoop ==
  [][/\ interrupted' => pc' = "stopped"
     /\ (interrupted' /\ ~interrupted) => UNCHANGED <<fields, now, last, at>>
     /\ interrupted => UNCHANGED <<fields, now, last, at, pc>>
    ]_vars

\* interrupted during the delay of trigger_reboot: the reboot decided by the
\* CPU check is never dispatched
C15_Witness ==
  /\ interrupted
  /\ pc = "stopped"
  /\ at = "cpu"
  /\ last.action = "none"
  /\ last.cpu = 85
  /\ now - cpu_high_start >= duration_threshold

\* some pattern of the list is found in the text t
Found(folded, t) == \E i \in 1..Len(folded) : MatchFrom(folded[i], t, 1)

\* C16: analyze_log_line returns the most severe level that has a pattern
\* found in the line (critical before error before warning before info),
\* with a pattern of that level's list, and "debug" when no pattern of any
\* list is found; "Kernel panic: oops" is classified critical.
C16_MostSevereLevelWins ==
  verdict # NoVerdict =>
    LET t == casefold(strip(line))
        c == Found(critical_folded, t)
        e == Found(error_folded, t)
        w == Found(warning_folded, t)
        n == Found(info_folded, t)
    IN /\ (verdict.level = "critical") = c
       /\ (verdict.level = "error") = (~c /\ e)
       /\ (verdict.level = "warning") = (~c /\ ~e /\ w)
       /\ (verdict.level = "info") = (~c /\ ~e /\ ~w /\ n)
       /\ (verdict.level = "debug") = (~c /\ ~e /\ ~w /\ ~n)
       /\ (verdict.level = "debug") = (verdict.pattern = <<>>)
       /\ line = "Kernel panic: oops" =>
            verdict = [level |-> "critical", pattern |-> <<"Kernel panic">>]

\* a line with a pattern of the critical list and one of the error list
C16_Witness ==
  /\ verdict.level = "critical"
  /\ Found(error_folded, casefold(strip(line)))
  /\ line = "Unable to handle kernel"
  /\ verdict.pattern = <<"Unable to handle kernel">>

\* C17: a line and the same line with the case of its letters changed get
\* the same level (and the same pattern) from analyze_log_line.
C17_CaseInsensitive ==
  verdict # NoVerdict =>
    /\ verdict_variant.level = verdict.level
    /\ verdict_variant.pattern = verdict.pattern

\* a classified line in mixed case
C17_Witness ==
  /\ verdict.level = "error"
  /\ variant # line
  /\ variant # ChangeCase(line, "upper", 1)
  /\ variant # ChangeCase(line, "lower", 1)
  /\ variant = "wARNING: fAILED TO"

\* the cap of the file of the class that is followed
Cap ==
  IF store = "YCrash" THEN CrashCap
  ELSE IF store = "YPower" THEN PowerCap
  ELSE LogCap

\* C20: as long as every read of the file succeeded, after any number of
\* calls the file holds at most 1000 (YLog), 100 (YCrash), 1000 (YPower)
\* entries, and they are the entries of the most recent calls in the order of
\* the calls.
C20_StoreKeepsMostRecent ==
  failed_at = 0 =>
    /\ file_exists = (appended > 0)
    /\ Len(file_content) <= Cap
    /\ Len(file_content) = IF appended > Cap THEN Cap ELSE appended
    /\ \A i \in 1..Len(file_content) :
         file_content[i] = appended - Len(file_content) + i

\* the crash file after more calls than its cap: the oldest entries are gone
C20_Witness ==
  /\ store = "YCrash"
  /\ failed_at = 0
  /\ appended = CrashCap + MaxExtra
  /\ Len(file_content) = CrashCap
  /\ file_content[1] = MaxExtra + 1
  /\ file_content[CrashCap] = appended

\* C26: one check_and_trigger call dispatches the action of the first metric,
\* in the order CPU, RAM, WiFi, whose check finds it due, and returns: the
\* timers of the metrics after it keep their values whatever their samples,
\* and a RAM reboot that is due in the same call as a CPU reboot is not
\* dispatched.
C26_FirstDueMetricOnly ==
  [][Ticked =>
       /\ last'.action = "cpu" =>
            /\ CpuDue
            /\ UNCHANGED fields
       /\ last'.action = "ram" =>
            /\ ~CpuDue
            /\ RamDue
            /\ UNCHANGED <<ram_high_start, wifi_down_start>>
       /\ last'.action = "wifi" => (~CpuDue /\ ~RamDue)
       /\ CpuDue => last'.action = "cpu"
    ]_vars

\* the CPU reboot is dispatched in a call whose RAM sample has just risen over
\* the threshold and whose connectivity check has just succeeded again: both
\* timers stay as they were
C26_Witness ==
  /\ cls = "EnhancedWatchdogMonitor"
  /\ last.action = "cpu"
  /\ last.ram = 85
  /\ ram_high_start = None
  /\ last.wifi = "ping_ok"
  /\ wifi_down_start # None

Levels == {"critical", "error", "warning", "info", "debug"}

\* the lines the analysed files are made of: one of each severity, and one
\* with blanks around it
FileLines == {
  "Kernel panic: oops", "ERROR: Unable to", "Warning: Deprecated",
  "INFO: Loading", "usb 1-1", " rk3588 thermal critical "
  }

\* the files of at most n lines
RECURSIVE FilesOf(_)
FilesOf(n) ==
  IF n = 0 THEN {<<>>}
  ELSE LET shorter == FilesOf(n - 1)
       IN shorter \cup {Append(f, l) : f \in shorter, l \in FileLines}

ShouldLogWarnings(criticality) == criticality \in {"critical", "error", "warning"}

\* "if criticality in ["critical", "error"]"
ShouldLog(criticality) == criticality \in {"critical", "error"}

\* the record log_error appends to <criticality>.log
Record(criticality, n, message, pattern) ==
  [criticality |-> criticality, line |-> n, message |-> message,
   pattern |-> pattern]

\* the loop of analyze_log_file from line n on, given the counts and the
\* records so far
RECURSIVE ScanFrom(_, _, _, _)
ScanFrom(lines, n, counts, recs) ==
  IF n > Len(lines) THEN [stats |-> counts, records |-> recs]
  ELSE LET found == analyze_log_line(lines[n])
           criticality == found.level
       IN ScanFrom(lines, n + 1,
                   [counts EXCEPT ![criticality] = @ + 1],
                   IF ShouldLog(criticality)
                   THEN Append(recs, Record(criticality, n, strip(lines[n]),
                                            found.pattern))
                   ELSE recs)

analyze_log_file ==
  /\ returned = "pending"
  /\ IF ~path_exists
     THEN /\ records' = Append(records, Record("error", None,
                                               "Log file not found", <<>>))
          /\ stats' = stats
          /\ returned' = "None"
     ELSE LET out == ScanFrom(log_lines, 1, [l \in Levels |-> 0], records)
          IN /\ stats' = out.stats
             /\ records' = out.records
             /\ returned' = "stats"
  /\ UNCHANGED <<path_exists, log_lines>>
  /\ UNCHANGED <<watchdog, analyzer, stores, crash, kmsg, stress>>

\* analyze_log_file on a missing path and on the files of at most MaxLines
\* lines
InitReport ==
  /\ IdleWatchdog
  /\ IdleAnalyzer
  /\ IdleStores
  /\ path_exists \in BOOLEAN
  /\ log_lines \in (IF path_exists THEN FilesOf(MaxLines) ELSE {<<>>})
  /\ stats = NoStats
  /\ records = <<>>
  /\ returned = "pending"
  /\ IdleCrash /\ IdleKmsg /\ IdleStress

NextReport == analyze_log_file

SpecReport == InitReport /\ [][NextReport]_vars

\* the lines of the file that analyze_log_line puts at a severity
LinesAt(criticality) ==
  {n \in 1..Len(log_lines) : analyze_log_line(log_lines[n]).level = criticality}

RECURSIVE SumOver(_, _)
SumOver(f, S) ==
  IF S = {} THEN 0
  ELSE LET x == CHOOSE y \in S : TRUE IN f[x] + SumOver(f, S \ {x})

\* C28: analyze_log_file on an existing file returns counts over the five
\* severities whose sum is the number of lines read, each line counted under
\* the severity analyze_log_line returns for it, and it writes one log_error
\* record per critical or error line, in the order of the lines, and none for
\* any other line.
C28_CountsAndRecords ==
  returned = "stats" =>
    /\ DOMAIN stats = Levels
    /\ SumOver(stats, Levels) = Len(log_lines)
    /\ \A l \in Levels : stats[l] = Cardinality(LinesAt(l))
    /\ Len(records) = Cardinality(LinesAt("critical") \cup LinesAt("error"))
    /\ \A i \in 1..Len(records) :
         /\ records[i].criticality \in {"critical", "error"}
         /\ records[i].line \in LinesAt(records[i].criticality)
         /\ \A j \in 1..Len(records) : i < j => records[i].line < records[j].line

C28_Witness ==
  /\ returned = "stats"
  /\ Len(log_lines) = 3
  /\ stats["critical"] = 1 /\ stats["warning"] = 1 /\ stats["error"] = 1
  /\ Len(records) = 2

\* ------------------------------------------------------ CrashReporter ----
\* strftime('%Y%m%d_%H%M%S') in the name of a report: the digits of the time
\* stamp in fields of fixed width, the most significant first (two digits
\* here)
report_name(t) == <<t \div 10, t % 10>>

\* the order of sorted() on the paths: by the first character that differs
NameBefore(a, b) == a[1] < b[1] \/ (a[1] = b[1] /\ a[2] < b[2])

\* the largest time stamp a name holds
MaxStamp == 99

\* cleanup_old_reports: reports[:-max_crash_reports] of the sorted names are
\* unlinked, so a name stays when fewer than max_crash_reports names sort
\* after it
cleanup_old_reports(files) ==
  IF Cardinality(files) > max_crash_reports
  THEN {f \in files :
          Cardinality({g \in files : NameBefore(f, g)}) < max_crash_reports}
  ELSE files

\* generate_crash_report: the report is written under the name of the
\* present time, then the old reports are cleaned up
generate_crash_report(files, t) == cleanup_old_reports(files \cup {report_name(t)})

DiffersAlways(last_boot_id, current_boot_id) == TRUE

\* "if last_boot_id != current_boot_id"
Differs(last_boot_id, current_boot_id) == last_boot_id # current_boot_id

save_current_bootAlways(stored, boot_id) == <<boot_id>>

\* save_current_boot: "if boot_id:" writes the file, and nothing is written
\* for None
save_current_boot(stored, boot_id) ==
  IF boot_id # None THEN <<boot_id>> ELSE stored

\* get_boot_id: the ID of the running kernel, or None when the read raised
get_boot_id(readable) == IF readable THEN kernel_boot_id ELSE None

\* one run of crash_reporter.py: check_previous_crash, with
\* generate_crash_report and save_current_boot. The wall clock reads t.
check_previous_crash ==
  /\ runs < MaxRuns
  /\ \E readable \in BOOLEAN, t \in {wall, wall + 1} :
       LET current_boot_id == get_boot_id(readable)
           crashed == /\ current_boot_file # Absent
                      /\ Differs(current_boot_file[1], current_boot_id)
           written == IF crashed THEN crash_files \cup {report_name(t)}
                      ELSE crash_files
       IN /\ t <= MaxStamp
          /\ wall' = t
          /\ crash_files' = IF crashed THEN generate_crash_report(crash_files, t)
                            ELSE crash_files
          /\ current_boot_file' = save_current_boot(current_boot_file,
                                                    current_boot_id)
          /\ last_run' = [stored |-> current_boot_file,
                          current |-> current_boot_id,
                          boot |-> kernel_boot_id,
                          report |-> IF crashed THEN report_name(t) ELSE NoReport,
                          removed |-> written \ crash_files']
  /\ runs' = runs + 1
  /\ UNCHANGED <<kernel_boot_id, boots>>
  /\ UNCHANGED <<watchdog, analyzer, stores, report, kmsg, stress>>

\* the clock a boot starts from when the board kept no time while it was off
StaleClock == 0

\* the machine goes down and boots again: the kernel draws a fresh boot ID,
\* and the wall clock goes on or restarts from a stale reading
Reboot ==
  /\ boots < MaxRuns
  /\ boots' = boots + 1
  /\ kernel_boot_id' = kernel_boot_id + 1
  /\ wall' \in {wall + 1, StaleClock}
  /\ wall' <= MaxStamp
  /\ UNCHANGED <<current_boot_file, crash_files, runs, last_run>>
  /\ UNCHANGED <<watchdog, analyzer, stores, report, kmsg, stress>>

\* the reports of k earlier crashes, one a second
ReportsOf(k) == {report_name(t) : t \in 1..k}

\* the second boot of the machine; the stored boot ID is missing, that of the
\* boot before or that of this boot; the crash directory is empty, holds one
\* report, or is one short of or at its cap
InitCrash ==
  /\ IdleWatchdog
  /\ IdleAnalyzer
  /\ IdleStores
  /\ IdleReport
  /\ kernel_boot_id = 1
  /\ current_boot_file \in {Absent, <<0>>, <<1>>}
  /\ \E k \in {0, 1, max_crash_reports - 1, max_crash_reports} :
       /\ crash_files = ReportsOf(k)
       /\ wall = k
  /\ runs = 0
  /\ boots = 0
  /\ last_run = NoRun
  /\ IdleKmsg /\ IdleStress

NextCrash ==
  \/ check_previous_crash
  \/ Reboot

SpecCrash == InitCrash /\ [][NextCrash]_vars

\* a run of crash_reporter.py
Ran == runs' = runs + 1

C22_NewestReportsKept ==
  [][(Ran /\ last_run'.report # NoReport) =>
       /\ Cardinality(crash_files') <= max_crash_reports
       /\ \A r \in last_run'.removed, k \in crash_files' : NameBefore(r, k)
       /\ last_run'.report \notin last_run'.removed
    ]_vars

\* ------------------------------------------------- KernelLoggerDaemon ----
Digits == "0123456789"

\* the ASCII codes of the other characters of the lines
Punctuation ==
  [c \in {" ", ",", "-", ":", ";", "<", ">"} |->
     CASE c = " " -> 32 [] c = "," -> 44 [] c = "-" -> 45 [] c = ":" -> 58
       [] c = ";" -> 59 [] c = "<" -> 60 [] c = ">" -> 62]

\* the value of the byte c
ord(c) ==
  IF Find(c, Digits, 1) # 0 THEN 47 + Find(c, Digits, 1)
  ELSE IF Find(c, Uppers, 1) # 0 THEN 64 + Find(c, Uppers, 1)
  ELSE IF Find(c, Lowers, 1) # 0 THEN 96 + Find(c, Lowers, 1)
  ELSE Punctuation[c]

\* the number a string of decimal digits writes, None when it is empty or
\* holds another character (float() raises)
RECURSIVE ParseDigits(_, _)
ParseDigits(text, acc) ==
  IF text = "" THEN acc
  ELSE LET d == Find(SubSeq(text, 1, 1), Digits, 1)
       IN IF d = 0 THEN None
          ELSE ParseDigits(SubSeq(text, 2, Len(text)), 10 * acc + d - 1)

ToNumber(text) == IF text = "" THEN None ELSE ParseDigits(text, 0)

\* str.split(sep)[k] for k = 0, 1: the text before the first sep, and the text
\* between the first sep and the next one; "missing" where the list is shorter
Piece(text, sep, k) ==
  LET i == Find(sep, text, 1)
      rest == SubSeq(text, i + 1, Len(text))
      j == Find(sep, rest, 1)
  IN IF k = 0 THEN (IF i = 0 THEN text ELSE SubSeq(text, 1, i - 1))
     ELSE IF i = 0 THEN "missing"
     ELSE IF j = 0 THEN rest ELSE SubSeq(rest, 1, j - 1)

\* the number of times the character sep occurs in text
Occurrences(sep, text) == Cardinality({i \in 1..Len(text) : SubSeq(text, i, i) = sep})

\* what parse_kmsg_line returns when it returns None
Unparsed == [returned |-> "None", priority |-> None, timestamp |-> None,
             message |-> ""]

priorityFromDigits(text) == ToNumber(Piece(Piece(text, ">", 0), "<", 1))

\* "priority = struct.unpack('B', line[1:2])[0]": the value of the second byte
\* of the line
priorityFromByte(text) == ord(SubSeq(text, 2, 2))

\* parse_kmsg_line; the time stamp is kept in microseconds
parse_kmsg_line(text) ==
  LET semi == Find(";", text, 1)
      metadata == SubSeq(text, 1, semi - 1)
      message == SubSeq(text, semi + 1, Len(text))
      stamp == Piece(Piece(metadata, ",", 0), ">", 1)
  IN IF Len(text) < 2 THEN Unparsed
     ELSE IF semi = 0 THEN Unparsed
     ELSE IF Occurrences(",", metadata) # 1 THEN Unparsed
     ELSE IF stamp = "missing" \/ ToNumber(stamp) = None THEN Unparsed
     ELSE [returned |-> "dict", priority |-> priorityFromByte(text),
           timestamp |-> ToNumber(stamp), message |-> strip(message)]

\* the level kernel priority p is to be logged at
LevelOf(p) ==
  IF p <= 3 THEN "ERROR"
  ELSE IF p = 4 THEN "WARNING"
  ELSE IF p = 5 THEN "INFO"
  ELSE "DEBUG"

\* log_message: nothing for None, else the level of msg_data['priority']
log_message(data) ==
  IF data.returned # "dict" THEN "none" ELSE LevelOf(data.priority)

\* the lines read from /dev/kmsg in the model: the form
\* "<priority>timestamp,sequence;message" for the priorities 0 to 7 and for a
\* priority with a facility, and lines of other forms
Priorities == {"0", "1", "2", "3", "4", "5", "6", "7", "30"}
Stamps == {"0", "250", "1000000"}
Messages == {"oops", "usb 1-1: new device", " link up "}
FormedLines ==
  {"<" \o p \o ">" \o t \o ",7;" \o m : p \in Priorities, t \in Stamps, m \in Messages}
OtherLines ==
  {"", "<", "<3>12,7 oops", "<3>12;oops", "<3>12,7,-;oops", "3,7,12,-;oops",
   "<3>x2,7;oops", "<3 12,7;oops"}
KmsgLines == FormedLines \cup OtherLines

\* one turn of the loop of run(): a line is read, parsed and logged
ReadLine ==
  /\ msg_data = NoData
  /\ msg_data' = parse_kmsg_line(kmsg_line)
  /\ level_logged' = log_message(msg_data')
  /\ UNCHANGED kmsg_line
  /\ UNCHANGED <<watchdog, analyzer, stores, report, crash, stress>>

InitKmsg ==
  /\ IdleWatchdog
  /\ IdleAnalyzer
  /\ IdleStores
  /\ IdleReport
  /\ IdleCrash
  /\ kmsg_line \in KmsgLines
  /\ msg_data = NoData
  /\ level_logged = "none"
  /\ IdleStress

NextKmsg == ReadLine

SpecKmsg == InitKmsg /\ [][NextKmsg]_vars

\* C23 as stated: for a line of the form "<priority>timestamp,sequence;message"
\* parse_kmsg_line yields the number written between "<" and ">", and
\* log_message logs at ERROR for a priority <= 3, WARNING for 4, INFO for 5
\* and DEBUG for >= 6.
C23_PriorityDecidesLevel ==
  (msg_data # NoData /\ kmsg_line \in FormedLines) =>
    /\ msg_data.returned = "dict"
    /\ msg_data.priority = priorityFromDigits(kmsg_line)
    /\ level_logged = LevelOf(priorityFromDigits(kmsg_line))

\* ------------------------------------------------- the stress tests ----
StressTests == {"CleanStressTest", "SimpleStressTest", "VoltageStressTest"}

\* a child process just started, running program
Child(program) == [runs |-> program, alive |-> TRUE]

\* the children with the indexes in which, ended
Ended(procs, which) ==
  [i \in DOMAIN procs |->
     IF i \in which THEN [procs[i] EXCEPT !.alive = FALSE] ELSE procs[i]]

\* the glmark2 instances started so far
Glmarks == {i \in DOMAIN children : children[i].runs = "glmark2"}

\* the threads of the test are daemon threads: they run while the interpreter
\* does
Alive == main_at \in {"waiting", "stopping", "returned"}

\* start_stress up to time.sleep(duration): the CPU stress processes of
\* VoltageStressTest, one per CPU, and the threads are started
start_stress ==
  /\ main_at = "init"
  /\ main_at' = "waiting"
  /\ gpu_at' = "popen"
  /\ IF test = "VoltageStressTest"
     THEN \E cpu_count \in 1..MaxCpus :
            /\ children' = [i \in 1..cpu_count |-> Child("cpu_stress")]
            /\ cpu_processes' = [i \in 1..cpu_count |-> i]
            /\ memory_at' = "ready"
     ELSE UNCHANGED <<children, cpu_processes, memory_at>>
  /\ UNCHANGED <<test, as_script, running, gpu_process, sigint>>
  /\ UNCHANGED <<watchdog, analyzer, stores, report, crash, kmsg>>

\* gpu_stress: one subprocess.Popen of glmark2, which starts the process or
\* raises
gpu_stressPopen ==
  /\ Alive
  /\ gpu_at = "popen"
  /\ \E started \in BOOLEAN :
       IF started
       THEN /\ children' = Append(children, Child("glmark2"))
            /\ gpu_process' = Len(children) + 1
            /\ gpu_at' = IF test = "VoltageStressTest"
                         THEN (IF Cardinality(Glmarks) + 1 < GlmarkInstances
                               THEN "popen" ELSE "fallback")
                         ELSE "done"
       ELSE /\ children' = children
            /\ gpu_process' = IF test = "VoltageStressTest" THEN None
                              ELSE gpu_process
            /\ gpu_at' = IF test = "CleanStressTest" THEN "done" ELSE "fallback"
  /\ UNCHANGED <<test, as_script, running, cpu_processes, main_at, memory_at,
                 sigint>>
  /\ UNCHANGED <<watchdog, analyzer, stores, report, crash, kmsg>>

\* gpu_stress after glmark2: SimpleStressTest starts /tmp/gpu_test.py when
\* glmark2 raised, VoltageStressTest starts /tmp/gpu_io_stress.py "if not
\* self.gpu_process"
gpu_stressFallback ==
  /\ Alive
  /\ gpu_at = "fallback"
  /\ gpu_at' = "done"
  /\ \E started \in BOOLEAN :
       IF started /\ gpu_process = None
       THEN /\ children' = Append(children,
                                  Child(IF test = "VoltageStressTest"
                                        THEN "gpu_io_stress" ELSE "gpu_test"))
            /\ gpu_process' = Len(children) + 1
       ELSE UNCHANGED <<children, gpu_process>>
  /\ UNCHANGED <<test, as_script, running, cpu_processes, main_at, memory_at,
                 sigint>>
  /\ UNCHANGED <<watchdog, analyzer, stores, report, crash, kmsg>>

\* VoltageStressTest.memory_stress: the Popen of /tmp/memory_stress.py, kept
\* in the local memory_process only
memory_stress ==
  /\ Alive
  /\ memory_at = "ready"
  /\ memory_at' = "done"
  /\ \E started \in BOOLEAN :
       children' = IF started THEN Append(children, Child("memory_stress"))
                   ELSE children
  /\ UNCHANGED <<test, as_script, running, gpu_process, cpu_processes,
                 main_at, gpu_at, sigint>>
  /\ UNCHANGED <<watchdog, analyzer, stores, report, crash, kmsg>>

\* SIGINT while the main thread is in time.sleep(duration). As __main__ the
\* file has installed signal_handler, which calls sys.exit(0): SystemExit is
\* no KeyboardInterrupt, start_stress is left and the interpreter exits,
\* ending the daemonic multiprocessing children. Without the handler
\* KeyboardInterrupt is raised and caught. Ctrl+C on a terminal signals the
\* whole foreground process group (group), kill -INT the interpreter alone.
Sigint ==
  /\ main_at = "waiting"
  /\ sigint' = TRUE
  /\ main_at' = IF as_script THEN "exited" ELSE "stopping"
  /\ \E group \in BOOLEAN :
       children' = Ended(children,
                         (IF group THEN DOMAIN children ELSE {})
                           \cup (IF as_script
                                 THEN {cpu_processes[i] : i \in DOMAIN cpu_processes}
                                 ELSE {}))
  /\ UNCHANGED <<test, as_script, running, gpu_process, cpu_processes, gpu_at,
                 memory_at>>
  /\ UNCHANGED <<watchdog, analyzer, stores, report, crash, kmsg>>

\* time.sleep(duration) returns
SleepEnds ==
  /\ main_at = "waiting"
  /\ main_at' = "stopping"
  /\ UNCHANGED <<test, as_script, running, gpu_process, cpu_processes,
                 children, gpu_at, memory_at, sigint>>
  /\ UNCHANGED <<watchdog, analyzer, stores, report, crash, kmsg>>

\* stop_stress: running is cleared, the process in self.gpu_process is
\* terminated (killed when that fails), and VoltageStressTest terminates the
\* processes in self.cpu_processes
stop_stress ==
  /\ main_at = "stopping"
  /\ main_at' = "returned"
  /\ running' = FALSE
  /\ children' = Ended(children,
                       (IF gpu_process # None THEN {gpu_process} ELSE {})
                         \cup {cpu_processes[i] : i \in DOMAIN cpu_processes})
  /\ UNCHANGED <<test, as_script, gpu_process, cpu_processes, gpu_at,
                 memory_at, sigint>>
  /\ UNCHANGED <<watchdog, analyzer, stores, report, crash, kmsg>>

\* start_stress returns to __main__ and the interpreter exits
Exit ==
  /\ main_at = "returned"
  /\ main_at' = "exited"
  /\ UNCHANGED <<test, as_script, running, gpu_process, cpu_processes,
                 children, gpu_at, memory_at, sigint>>
  /\ UNCHANGED <<watchdog, analyzer, stores, report, crash, kmsg>>

\* one of the stress tests constructed, run as a script or imported
InitStress ==
  /\ IdleWatchdog
  /\ IdleAnalyzer
  /\ IdleStores
  /\ IdleReport /\ IdleCrash /\ IdleKmsg
  /\ test \in StressTests
  /\ as_script \in BOOLEAN
  /\ running = TRUE
  /\ gpu_process = None
  /\ cpu_processes = <<>>
  /\ children = <<>>
  /\ main_at = "init"
  /\ gpu_at = "idle"
  /\ memory_at = "idle"
  /\ sigint = FALSE

NextStress ==
  \/ start_stress
  \/ gpu_stressPopen
  \/ gpu_stressFallback
  \/ memory_stress
  \/ Sigint
  \/ SleepEnds
  \/ stop_stress
  \/ Exit

SpecStress == InitStress /\ [][NextStress]_vars

\* the children still running
Running == {i \in DOMAIN children : children[i].alive}

\* C24 as stated: when SIGINT arrived while start_stress of CleanStressTest or
\* SimpleStressTest was waiting, then by the time the program has exited
\* stop_stress has run: running is False and no GPU stress process that was
\* started is still running.
C24_CtrlCStopsCleanly ==
  (test \in {"CleanStressTest", "SimpleStressTest"} /\ sigint
     /\ main_at = "exited") =>
    /\ ~running
    /\ \A i \in Running : children[i].runs \notin {"glmark2", "gpu_test"}

\* C25 as stated: once stop_stress of VoltageStressTest has returned, no
\* child process the test started is still running.
C25_NoChildLeftRunning ==
  (test = "VoltageStressTest" /\ main_at = "returned") => Running = {}

====
